---- MODULE Spec2Model ----
(***************************************************************************)
(* Model of the hypothesis-test constructors of the `hypothetical` package *)
(* (hypothesis.py: tTest; nonparametric.py: KruskalWallis, MannWhitney,    *)
(* WilcoxonTest, tie_correction).                                          *)
(*                                                                         *)
(* A test object is built by one call of its constructor.  The state is    *)
(* the call (class and arguments), its position (pc) and its outcome: the  *)
(* attributes assigned to `self` so far and the exception raised, if any.  *)
(*                                                                         *)
(* Numbers.  Python/numpy floats are modelled exactly where the code's     *)
(* arithmetic is rational: a value is a record [k, n, d]                   *)
(*    k = "num"  : the rational n/d (d > 0, lowest terms)                  *)
(*    k = "root" : sign(n) * sqrt(|n|/d)   (results of np.sqrt)            *)
(*    k = "inf"  : +infinity (n = 1) or -infinity (n = -1)                 *)
(*    k = "nan"  : not-a-number                                            *)
(*    k = "eps"  : np.finfo(float).eps, a positive number below any other  *)
(*                 positive value of the model                             *)
(* Optional arguments (None) are modelled as <<>> and a given value x as   *)
(* <<x>>.                                                                   *)
(***************************************************************************)
EXTENDS Integers, Sequences, FiniteSets, TLC

VARIABLES cls, args, pc, res

vars == <<cls, args, pc, res>>

(***************************************************************************)
(* Bounds of the model.                                                    *)
(***************************************************************************)
\* longest sample vector drawn for tTest
MaxLen == 3

\* observation values drawn for tTest
Values == {0, 1}

\* group labels; np.unique and npi.group_by order them ascending
Labels == {1, 2, 3}

\* longest sample vector drawn for the rank tests
MaxN == 3

\* longest sample vector drawn when KruskalWallis gets several vectors
MaxKWLen == 2

\* observation values drawn for the rank tests
RankValues == {0, 1, 2}

\* the vectors over S of length 1..maxlen
Vecs(S, maxlen) == UNION {[1..n -> S] : n \in 1..maxlen}

(***************************************************************************)
(* Optional values.                                                        *)
(***************************************************************************)
None == <<>>

Some(x) == <<x>>

IsNone(o) == o = <<>>

Get(o) == o[1]

(***************************************************************************)
(* Exact rational arithmetic.                                              *)
(***************************************************************************)
Abs(x) == IF x < 0 THEN -x ELSE x

Sgn(x) == IF x < 0 THEN -1 ELSE IF x = 0 THEN 0 ELSE 1

RECURSIVE GCD(_, _)
GCD(a, b) == IF b = 0 THEN a ELSE GCD(b, a % b)

\* the rational n/d in lowest terms, d # 0
Q(n, d) ==
    LET g == GCD(Abs(n), Abs(d))
        s == IF d < 0 THEN -1 ELSE 1
    IN  [k |-> "num", n |-> s * (n \div g), d |-> s * (d \div g)]

QInt(i) == [k |-> "num", n |-> i, d |-> 1]

QAdd(a, b) == Q(a.n * b.d + b.n * a.d, a.d * b.d)

QNeg(a) == [k |-> "num", n |-> -a.n, d |-> a.d]

QSub(a, b) == QAdd(a, QNeg(b))

QMul(a, b) == Q(a.n * b.n, a.d * b.d)

\* b # 0
QDiv(a, b) == QMul(a, Q(b.d, b.n))

QLess(a, b) == a.n * b.d < b.n * a.d

QLeq(a, b) == a.n * b.d <= b.n * a.d

QSq(a) == QMul(a, a)

(***************************************************************************)
(* Float values that are not rationals.                                    *)
(***************************************************************************)
NaN == [k |-> "nan", n |-> 0, d |-> 1]

PosInf == [k |-> "inf", n |-> 1, d |-> 1]

NegInf == [k |-> "inf", n |-> -1, d |-> 1]

\* np.finfo(float).eps
Eps == [k |-> "eps", n |-> 0, d |-> 1]

IsNum(x) == x.k = "num"

\* sign(s) * sqrt(q) for a rational q >= 0 and an integer sign s
Root(s, q) ==
    IF s = 0 \/ q.n = 0 THEN QInt(0) ELSE [k |-> "root", n |-> Sgn(s) * q.n, d |-> q.d]

\* numpy float division of the rational num by sqrt(den2), den2 a rational >= 0:
\* x/0 is +-inf, 0/0 is nan (a RuntimeWarning, no exception)
NpDivRoot(num, den2) ==
    IF den2.n = 0
    THEN IF num.n = 0 THEN NaN ELSE IF num.n > 0 THEN PosInf ELSE NegInf
    ELSE Root(num.n, QDiv(QSq(num), den2))

\* the square of a "num" or "root" value, as a rational
SqOf(x) == IF x.k = "root" THEN Q(Abs(x.n), x.d) ELSE QSq(x)

\* the sign of a "num", "root" or "inf" value
SignOf(x) == Sgn(x.n)

(***************************************************************************)
(* Float arithmetic on "num", "inf" and "nan" values, as numpy computes it *)
(* (division by zero gives inf or nan with a warning, never an exception). *)
(***************************************************************************)
FAdd(x, y) ==
    IF x.k = "nan" \/ y.k = "nan" THEN NaN
    ELSE IF x.k = "inf" /\ y.k = "inf" THEN (IF x.n = y.n THEN x ELSE NaN)
    ELSE IF x.k = "inf" THEN x
    ELSE IF y.k = "inf" THEN y
    ELSE QAdd(x, y)

FDiv(x, y) ==
    IF x.k = "nan" \/ y.k = "nan" THEN NaN
    ELSE IF x.k = "inf" /\ y.k = "inf" THEN NaN
    ELSE IF x.k = "inf" THEN (IF y.n < 0 THEN [x EXCEPT !.n = -x.n] ELSE x)
    ELSE IF y.k = "inf" THEN QInt(0)
    ELSE IF y.n = 0 THEN (IF x.n = 0 THEN NaN ELSE IF x.n > 0 THEN PosInf ELSE NegInf)
    ELSE QDiv(x, y)

\* x < y on floats; every comparison with nan is false; eps lies in (0, any positive)
FLess(x, y) ==
    IF x.k = "nan" \/ y.k = "nan" THEN FALSE
    ELSE IF x.k = "inf" THEN x.n < 0 /\ ~(y.k = "inf" /\ y.n < 0)
    ELSE IF y.k = "inf" THEN y.n > 0
    ELSE IF x.k = "eps" THEN y.k = "num" /\ y.n > 0
    ELSE IF y.k = "eps" THEN x.n <= 0
    ELSE QLess(x, y)

FLeq(x, y) == x.k # "nan" /\ y.k # "nan" /\ (x = y \/ FLess(x, y))

(***************************************************************************)
(* Vectors.                                                                *)
(***************************************************************************)
RECURSIVE SumSeq(_)
SumSeq(v) == IF v = <<>> THEN 0 ELSE v[1] + SumSeq(Tail(v))

RECURSIVE SumSqSeq(_)
SumSqSeq(v) == IF v = <<>> THEN 0 ELSE v[1] * v[1] + SumSqSeq(Tail(v))

\* the elements of x at the positions where sel holds, in their order
RECURSIVE SelectAt(_, _, _)
SelectAt(x, g, key) ==
    IF x = <<>> THEN <<>>
    ELSE (IF g[1] = key THEN <<x[1]>> ELSE <<>>) \o SelectAt(Tail(x), Tail(g), key)

Range(f) == {f[i] : i \in DOMAIN f}

\* the elements of a finite set of integers in ascending order (np.unique)
RECURSIVE SortedSeq(_)
SortedSeq(S) ==
    IF S = {} THEN <<>>
    ELSE LET m == CHOOSE x \in S : \A y \in S : x <= y
         IN  <<m>> \o SortedSeq(S \ {m})

\* the distinct elements of a sequence in the order of their first occurrence
RECURSIVE FirstSeen(_)
FirstSeen(v) ==
    IF v = <<>> THEN <<>>
    ELSE <<v[1]>> \o FirstSeen(SelectSeq(Tail(v), LAMBDA e : e # v[1]))

\* mutant of npi_group_by: the keys in first-seen order
npi_group_by_first_seen(keys, values) ==
    LET u == FirstSeen(keys)
    IN  <<u, [i \in 1..Len(u) |-> SelectAt(values, keys, u[i])]>>

\* npi.group_by(keys, values): <<unique keys ascending, the values of each key>>
npi_group_by(keys, values) ==
    LET u == SortedSeq(Range(keys))
    IN  <<u, [i \in 1..Len(u) |-> SelectAt(values, keys, u[i])]>>

(***************************************************************************)
(* Outcomes of a constructor call.                                         *)
(***************************************************************************)
\* no attribute assigned yet
NoSelf == <<>>

NoResult == [exc |-> "none", self |-> NoSelf]

\* a fresh object of class c: only its class is known
New(c) == "__class__" :> c

Raise(e, self) == [exc |-> e, self |-> self]

Return(self) == [exc |-> "none", self |-> self]

\* the value a method yields when a Python float division by zero raises
ZeroDivision == [k |-> "ZeroDivisionError", n |-> 0, d |-> 1]

(***************************************************************************)
(* scipy.stats.t, as far as the code depends on it.  The CDF is modelled   *)
(* on the grid of eighths by the closed form of the t-distribution with 2  *)
(* degrees of freedom, F(x) = 1/2 + x / (2 sqrt(2 + x^2)), rounded towards *)
(* 1/2: it is monotone, F(0) = 1/2, F(-x) = 1 - F(x), F(+-inf) is exactly  *)
(* 1 or 0, and nan for a nan statistic or degrees of freedom that are nan  *)
(* or not positive.                                                        *)
(***************************************************************************)
\* squares of the statistic at which F passes 5/8, 6/8, 7/8
TCdfSteps == <<Q(2, 15), Q(2, 3), Q(18, 7)>>

ValidDf(df) == (df.k = "num" /\ df.n > 0) \/ (df.k = "inf" /\ df.n > 0)

t_cdf(x, df) ==
    IF x.k = "nan" \/ ~ValidDf(df) THEN NaN
    ELSE IF x.k = "inf" THEN (IF x.n > 0 THEN QInt(1) ELSE QInt(0))
    ELSE LET j == Cardinality({i \in 1..Len(TCdfSteps) : QLeq(TCdfSteps[i], SqOf(x))})
         IN  Q(4 + SignOf(x) * j, 8)

(***************************************************************************)
(* hypothesis.py: class tTest                                              *)
(***************************************************************************)
\* _sample_stats: np.var is the population variance (divides by n)
tTest_sample_stats(sample_vector) ==
    LET n == Len(sample_vector)
        s == SumSeq(sample_vector)
    IN  [obs |-> n,
         variance |-> Q(n * SumSqSeq(sample_vector) - s * s, n * n),
         mean |-> Q(s, n)]

\* _paired, once the lengths are equal: np.array(y1) - np.array(y2)
tTest_paired(y1, y2) == [i \in 1..Len(y1) |-> y1[i] - y2[i]]

\* _split_groups, once the labels are at most two: <<y1, y2>>, y2 None for one label
tTest_split_groups(group, x) ==
    LET obs_matrix == npi_group_by(group, x)
    IN  <<obs_matrix[2][1],
          IF Len(obs_matrix[1]) = 2 THEN Some(obs_matrix[2][2]) ELSE None>>

\* mutant of tTest_pooled_df: one degree of freedom too many
tTest_pooled_df_off_by_one(n1, n2) == n1 + n2 - 1

\* the degrees of freedom of the pooled two-sample test
tTest_pooled_df(n1, n2) == n1 + n2 - 2

tTest_degrees_of_freedom(self) ==
    LET st1 == self.sample_statistics[self.y1_summary_stat_name]
        n1 == st1.obs
        s1 == st1.variance
        v1 == n1 - 1
    IN  IF ~IsNone(self.y2)
        THEN LET st2 == self.sample_statistics["Sample 2"]
                 n2 == st2.obs
                 s2 == st2.variance
                 v2 == n2 - 1
                 a == QDiv(s1, QInt(n1))
                 b == QDiv(s2, QInt(n2))
             IN  IF self.var_equal
                 THEN QInt(tTest_pooled_df(n1, n2))
                 ELSE FDiv(QSq(QAdd(a, b)),
                           FAdd(FDiv(QSq(a), QInt(v1)), FDiv(QSq(b), QInt(v2))))
        ELSE QInt(v1)

tTest_test_statistic(self) ==
    LET st1 == self.sample_statistics[self.y1_summary_stat_name]
        n1 == st1.obs
        s1 == st1.variance
        ybar1 == st1.mean
    IN  IF ~IsNone(self.y2)
        THEN LET st2 == self.sample_statistics["Sample 2"]
                 n2 == st2.obs
                 s2 == st2.variance
                 ybar2 == st2.mean
             IN  IF self.var_equal
                 THEN IF n1 + n2 - 2 = 0
                      THEN ZeroDivision
                      ELSE LET sp2 == QDiv(QAdd(QMul(QInt(n1 - 1), s1), QMul(QInt(n2 - 1), s2)),
                                           QInt(n1 + n2 - 2))
                           IN  NpDivRoot(QSub(ybar1, ybar2),
                                         QMul(sp2, QAdd(Q(1, n1), Q(1, n2))))
                 ELSE NpDivRoot(QSub(ybar1, ybar2),
                                QAdd(QDiv(s1, QInt(n1)), QDiv(s2, QInt(n2))))
        ELSE LET mu == IF IsNone(self.mu) THEN QInt(0) ELSE QInt(Get(self.mu))
             IN  NpDivRoot(QSub(ybar1, mu), QDiv(s1, QInt(n1)))

\* mutant of tTest_pvalue_of: the doubled tail is not wrapped back below 1
tTest_pvalue_of_no_wrap(p, alternative) ==
    LET p1 == IF alternative = "two-sided"
              THEN (IF p.k = "nan" THEN NaN ELSE QMul(p, QInt(2)))
              ELSE IF alternative = "greater"
                   THEN (IF p.k = "nan" THEN NaN ELSE QSub(QInt(1), p))
                   ELSE p
    IN  IF p1 = QInt(2) THEN Eps ELSE p1

\* the p-value for a CDF value p and an alternative
tTest_pvalue_of(p, alternative) ==
    LET p1 == IF alternative = "two-sided"
              THEN (IF p.k = "nan" THEN NaN ELSE QMul(p, QInt(2)))
              ELSE IF alternative = "greater"
                   THEN (IF p.k = "nan" THEN NaN ELSE QSub(QInt(1), p))
                   ELSE p
        p2 == IF FLess(QInt(1), p1) /\ FLess(p1, QInt(2)) THEN QSub(QInt(2), p1) ELSE p1
    IN  IF p2 = QInt(2) THEN Eps ELSE p2

tTest_pvalue(self) ==
    tTest_pvalue_of(t_cdf(self.t_statistic, self.parameter), self.alternative)

\* a finite interval bound c + s * crit * sqrt(w2): crit > 0 is the critical value
\* used ("t.ppf" for |t.ppf(alpha/2, df)|, "1.96"), s the sign of its offset
Bound(c, s, w2, crit) ==
    [k |-> "bound", c |-> c, s |-> IF w2.n = 0 THEN 0 ELSE s, w2 |-> w2, crit |-> crit]

tTest_conf_int(self) ==
    LET st1 == self.sample_statistics[self.y1_summary_stat_name]
        xn == st1.obs
        xvar == st1.variance
        xbar == st1.mean
        two == ~IsNone(self.y2)
        st2 == self.sample_statistics["Sample 2"]
        w2 == IF two
              THEN QAdd(QDiv(xvar, QInt(xn)), QDiv(st2.variance, QInt(st2.obs)))
              ELSE QDiv(xvar, QInt(xn))
        \* t.ppf(alpha / 2, df) is negative for 0 < alpha < 1, nan for an invalid df
        low_interval ==
            IF two
            THEN (IF ValidDf(self.parameter)
                  THEN Bound(QSub(xbar, st2.mean), -1, w2, "t.ppf") ELSE NaN)
            ELSE Bound(xbar, 1, w2, "1.96")
        high_interval ==
            IF two
            THEN (IF ValidDf(self.parameter)
                  THEN Bound(QSub(xbar, st2.mean), 1, w2, "t.ppf") ELSE NaN)
            ELSE Bound(xbar, -1, w2, "1.96")
    IN  IF self.alternative = "greater" THEN <<PosInf, high_interval>>
        ELSE IF self.alternative = "less" THEN <<NegInf, low_interval>>
        ELSE <<low_interval, high_interval>>

tTest_generate_result_summary(self) ==
    LET mean_key == IF self.y1_summary_stat_name = "Sample 1"
                    THEN "Sample 1 Mean" ELSE "Sample Difference Mean"
        test_results ==
            ("t-statistic" :> self.t_statistic)
            @@ ("p-value" :> self.p_value)
            @@ ("confidence interval" :> self.confidence_interval)
            @@ ("degrees of freedom" :> self.parameter)
            @@ ("alternative" :> self.alternative)
            @@ ("test description" :> self.test_description)
            @@ (mean_key :> self.sample_statistics[self.y1_summary_stat_name].mean)
        with_y2 == IF ~IsNone(self.y2)
                   THEN test_results
                        @@ ("Sample 2 Mean" :> self.sample_statistics["Sample 2"].mean)
                   ELSE test_results
    IN  IF ~IsNone(self.mu) THEN with_y2 @@ ("mu" :> Get(self.mu)) ELSE with_y2

\* the tail of __init__, from self.parameter on
tTest_compute(self) ==
    LET s1 == self @@ [parameter |-> tTest_degrees_of_freedom(self)]
        tval == tTest_test_statistic(s1)
    IN  IF tval = ZeroDivision THEN Raise("ZeroDivisionError", s1)
        ELSE LET s2 == s1 @@ [t_statistic |-> tval]
                 s3 == s2 @@ [p_value |-> tTest_pvalue(s2)]
                 s4 == s3 @@ [confidence_interval |-> tTest_conf_int(s3)]
             IN  Return(s4 @@ [test_summary |-> tTest_generate_result_summary(s4)])

\* mutant of tTest_method: the two names exchanged
tTest_method_swapped(var_equal) ==
    IF var_equal THEN "Welch's t-test" ELSE "Student's t-test"

\* mutant of tTest_too_many_groups: three labels pass
tTest_too_many_groups_gt3(group) == Cardinality(Range(group)) > 3

\* the check of _split_groups: len(np.unique(self.group)) > 2
tTest_too_many_groups(group) == Cardinality(Range(group)) > 2

\* the alternatives __init__ accepts
tTest_valid_alternative(alternative) == alternative \in {"two-sided", "greater", "less"}

\* the method name __init__ sets from var_equal
tTest_method(var_equal) == IF var_equal THEN "Student's t-test" ELSE "Welch's t-test"

\* tTest.__init__(y1, y2, group, mu, var_equal, paired, alternative)
tTest_init(a) ==
    LET s0 == New("tTest") @@ [group |-> a.group, paired |-> a.paired]
    IN
    IF ~tTest_valid_alternative(a.alternative) THEN Raise("ValueError", s0)
    ELSE
    LET s1 == s0 @@ [alternative |-> a.alternative]
    IN
    IF a.paired /\ IsNone(a.y2) THEN Raise("ValueError", s1)
    ELSE
    LET s2 == s1 @@ [mu |-> a.mu, method |-> tTest_method(a.var_equal),
                     var_equal |-> a.var_equal]
    IN
    IF a.paired
    THEN LET s3 == s2 @@ [test_description |-> "Paired t-test"]
         IN  IF Len(a.y1) # Len(Get(a.y2)) THEN Raise("ValueError", s3)
             ELSE LET x == tTest_paired(a.y1, Get(a.y2))
                  IN  tTest_compute(s3 @@ [y1 |-> x,
                          y1_summary_stat_name |-> "Sample Difference",
                          y2 |-> None,
                          sample_statistics |->
                              ("Sample Difference" :> tTest_sample_stats(x))])
    ELSE IF IsNone(a.y2) /\ IsNone(a.group)
    THEN tTest_compute(s2 @@ [test_description |-> "One-Sample t-test",
                 y1_summary_stat_name |-> "Sample 1",
                 y1 |-> a.y1, y2 |-> None,
                 sample_statistics |-> ("Sample 1" :> tTest_sample_stats(a.y1))])
    ELSE
    LET s3 == s2 @@ [test_description |-> "Two-Sample " \o s2.method,
                     y1_summary_stat_name |-> "Sample 1"]
    IN
    IF IsNone(a.group)
    THEN tTest_compute(s3 @@ [y1 |-> a.y1, y2 |-> a.y2,
                 sample_statistics |->
                     ("Sample 1" :> tTest_sample_stats(a.y1))
                     @@ ("Sample 2" :> tTest_sample_stats(Get(a.y2)))])
    ELSE IF tTest_too_many_groups(Get(a.group)) THEN Raise("ValueError", s3)
    ELSE
    LET split == tTest_split_groups(Get(a.group), a.y1)
        s4 == s3 @@ [y1 |-> split[1], y2 |-> split[2]]
    IN  \* with one label y2 is None and _sample_stats(None) fails in len()
        IF IsNone(split[2])
        THEN Raise("TypeError", s4 @@ [sample_statistics |->
                                        ("Sample 1" :> tTest_sample_stats(split[1]))])
        ELSE tTest_compute(s4 @@ [sample_statistics |->
                     ("Sample 1" :> tTest_sample_stats(split[1]))
                     @@ ("Sample 2" :> tTest_sample_stats(Get(split[2])))])

(***************************************************************************)
(* The calls.                                                              *)
(***************************************************************************)
Alternatives == {"two-sided", "greater", "less", "lesser"}

\* the arguments of a tTest call
tTestCall(v1, o2, g, m, ve, pr, alt) ==
    [y1 |-> v1, y2 |-> o2, group |-> g, mu |-> m, var_equal |-> ve,
     paired |-> pr, alternative |-> alt]

\* The calls drawn: without a group vector any second sample; with a group
\* vector (of the length of y1, section 3 of the specification) y2 absent or given.
InitTTest ==
    /\ cls = "tTest"
    /\ \E v1 \in Vecs(Values, MaxLen), m \in {None, Some(1)}, ve \in BOOLEAN,
          pr \in BOOLEAN, alt \in Alternatives :
          \/ \E o2 \in {None} \cup {Some(v2) : v2 \in Vecs(Values, MaxLen)} :
                args = tTestCall(v1, o2, None, m, ve, pr, alt)
          \/ \E o2 \in {None, Some(v1)}, gv \in [1..Len(v1) -> Labels] :
                args = tTestCall(v1, o2, Some(gv), m, ve, pr, alt)
    /\ pc = "call"
    /\ res = NoResult

\* tTest(...): the whole constructor
tTest ==
    /\ cls = "tTest"
    /\ pc = "call"
    /\ res' = tTest_init(args)
    /\ pc' = IF res'.exc = "none" THEN "returned" ELSE "raised"
    /\ UNCHANGED <<cls, args>>

NextTTest == tTest

SpecTTest == InitTTest /\ [][NextTTest]_vars

(***************************************************************************)
(* scipy.stats.rankdata(a, 'average') and scipy.stats.norm.cdf.            *)
(***************************************************************************)
\* v in ascending order, duplicates kept: the elements below the middle element,
\* those equal to it and those above it, each part in order
RECURSIVE SortAsc(_)
SortAsc(v) ==
    IF Len(v) <= 1 THEN v
    ELSE LET m == v[(Len(v) + 1) \div 2]
         IN  SortAsc(SelectSeq(v, LAMBDA e : e < m))
                 \o SelectSeq(v, LAMBDA e : e = m)
                 \o SortAsc(SelectSeq(v, LAMBDA e : e > m))

RECURSIVE SumSet(_)
SumSet(S) == IF S = {} THEN 0 ELSE LET x == CHOOSE x \in S : TRUE IN x + SumSet(S \ {x})

\* mutant of rankdata: method 'ordinal', tied values ranked in order of appearance
rankdata_ordinal(v) ==
    [i \in 1..Len(v) |->
        QInt(1 + Cardinality({j \in 1..Len(v) : v[j] < v[i]})
               + Cardinality({j \in 1..(i - 1) : v[j] = v[i]}))]

\* each element gets the mean of the positions its value occupies in sorted order
rankdata(v) ==
    LET srt == SortAsc(v)
    IN  [i \in 1..Len(v) |->
            LET P == {p \in 1..Len(srt) : srt[p] = v[i]}
            IN  Q(SumSet(P), Cardinality(P))]

\* the sum of a vector of rationals
RECURSIVE QSum(_)
QSum(v) ==
    IF v = <<>> THEN QInt(0)
    ELSE IF Len(v) = 1 THEN QAdd(v[1], QInt(0))
    ELSE LET h == Len(v) \div 2
         IN  QAdd(QSum(SubSeq(v, 1, h)), QSum(SubSeq(v, h + 1, Len(v))))

\* np.unique(v, return_counts=True)[1] as a function from the distinct values
unique_counts(v) ==
    [x \in Range(v) |-> Cardinality({i \in 1..Len(v) : v[i] = x})]

\* np.sum(c ** 3 - c) over the counts c of at least min_count
SumCubes(counts, min_count) ==
    LET c == counts
        RECURSIVE S(_)
        S(D) == IF D = {} THEN 0
                ELSE LET x == CHOOSE x \in D : TRUE
                     IN  (IF c[x] >= min_count THEN c[x] * c[x] * c[x] - c[x] ELSE 0)
                         + S(D \ {x})
    IN  S(DOMAIN c)

\* squares of the argument at which the normal CDF passes 5/8, 6/8, 7/8
\* (0.3186, 0.6745, 1.1503) and at which 1 - cdf rounds to 0 (about 8.3)
NormCdfSteps == <<Q(13, 128), Q(5, 11), Q(45, 34), Q(69, 1)>>

\* norm.cdf on the grid of eighths, rounded towards 1/2; exactly 0 or 1 far out
norm_cdf(x) ==
    IF x.k = "nan" THEN NaN
    ELSE IF x.k = "inf" THEN (IF x.n > 0 THEN QInt(1) ELSE QInt(0))
    ELSE LET j == Cardinality({i \in 1..Len(NormCdfSteps) : QLeq(NormCdfSteps[i], SqOf(x))})
         IN  Q(4 + SignOf(x) * j, 8)

\* 1 - p and 2 * p on floats
FOneMinus(p) == IF p.k = "nan" THEN NaN ELSE QSub(QInt(1), p)

FTwice(p) == IF p.k = "nan" THEN NaN ELSE QMul(p, QInt(2))

\* |x| of a "num", "root", "inf" or "nan" value
FAbs(x) == IF x.k = "nan" THEN x ELSE [x EXCEPT !.n = Abs(x.n)]

\* |z| / np.sqrt(n)
EffSize(z, n) ==
    IF z.k \in {"nan", "inf"} THEN FAbs(z) ELSE Root(1, QDiv(SqOf(z), QInt(n)))

(***************************************************************************)
(* nonparametric.py: tie_correction                                        *)
(***************************************************************************)
tie_correction(rank_array) ==
    LET tied_groups == unique_counts(rank_array)
        N == Len(rank_array)
    IN  FOneMinus(FDiv(QInt(SumCubes(tied_groups, 2)),
                       QInt(N * N * N - N)))

(***************************************************************************)
(* nonparametric.py: class MannWhitney                                     *)
(***************************************************************************)
\* mutant of MannWhitney_rank: the observations of y1 in place of their ranks
MannWhitney_rank_raw(self) == [i \in 1..self.n1 |-> QInt(self.y1[i])]

\* mutant of MannWhitney_rank: the ranks of y1 alone
MannWhitney_rank_within_y1(self) == rankdata(self.y1)

\* _rank: the ranks of y1 within the concatenation of y1 and y2
MannWhitney_rank(self) ==
    SubSeq(rankdata(self.y1 \o self.y2), 1, self.n1)

\* mutant of MannWhitney_u: the larger of the two statistics
MannWhitney_u_max(self) ==
    LET u1 == QSub(QAdd(QInt(self.n1 * self.n2), Q(self.n1 * (self.n1 + 1), 2)),
                   QSum(self.ranks))
        u2 == QSub(QInt(self.n1 * self.n2), u1)
    IN  IF QLess(u1, u2) THEN u2 ELSE u1

MannWhitney_u(self) ==
    LET u1 == QSub(QAdd(QInt(self.n1 * self.n2), Q(self.n1 * (self.n1 + 1), 2)),
                   QSum(self.ranks))
        u2 == QSub(QInt(self.n1 * self.n2), u1)
    IN  IF QLess(u2, u1) THEN u2 ELSE u1

\* mutant of MannWhitney_mu: the continuity correction dropped
MannWhitney_mu_no_continuity(self) == Q(self.n1 * self.n2, 2)

MannWhitney_mu(self) ==
    QAdd(Q(self.n1 * self.n2, 2), IF self.continuity THEN Q(1, 2) ELSE QInt(0))

\* sigma_val: the tie counts are those of self._ranks, the ranks of y1
MannWhitney_sigma_val(self) ==
    LET rankcounts == unique_counts(self.ranks)
        n == self.n
    IN  Root(1, QMul(Q(self.n1 * self.n2 * (n + 1), 12),
                     QSub(QInt(1), Q(SumCubes(rankcounts, 1), n * n * n - n))))

MannWhitney_z(self) ==
    LET diff == QSub(self.u_statistic, self.meanrank)
    IN  NpDivRoot(Q(Abs(diff.n), diff.d), SqOf(self.sigma))

MannWhitney_p_val(self) == FTwice(FOneMinus(norm_cdf(self.z_value)))

MannWhitney_eff_size(self) == EffSize(self.z_value, self.n)

\* mutant of MannWhitney_too_many_groups: three labels pass
MannWhitney_too_many_groups_gt3(group) == Cardinality(Range(group)) > 3

\* the check of __init__: len(np.unique(group)) > 2
MannWhitney_too_many_groups(group) == Cardinality(Range(group)) > 2

\* the tail of __init__, from self.n1 on
MannWhitney_compute(s0, continuity) ==
    LET s1 == s0 @@ [n1 |-> Len(s0.y1), n2 |-> Len(s0.y2),
                     n |-> Len(s0.y1) + Len(s0.y2), continuity |-> continuity]
        s2 == s1 @@ [ranks |-> MannWhitney_rank(s1)]
        s3 == s2 @@ [u_statistic |-> MannWhitney_u(s2)]
        s4 == s3 @@ [meanrank |-> MannWhitney_mu(s3)]
        s5 == s4 @@ [sigma |-> MannWhitney_sigma_val(s4)]
        s6 == s5 @@ [z_value |-> MannWhitney_z(s5)]
        s7 == s6 @@ [p_value |-> MannWhitney_p_val(s6)]
    IN  Return(s7 @@ [effect_size |-> MannWhitney_eff_size(s7)])

\* MannWhitney.__init__(y1, y2, group, continuity)
MannWhitney_init(a) ==
    IF IsNone(a.group)
    THEN \* len(None) fails when y2 is absent
         IF IsNone(a.y2)
         THEN Raise("TypeError", New("MannWhitney") @@ [y1 |-> a.y1, y2 |-> None])
         ELSE MannWhitney_compute(New("MannWhitney") @@ [y1 |-> a.y1, y2 |-> Get(a.y2)],
                                  a.continuity)
    ELSE IF MannWhitney_too_many_groups(Get(a.group))
    THEN Raise("ValueError", New("MannWhitney"))
    ELSE LET obs_matrix == npi_group_by(Get(a.group), a.y1)
         IN  \* obs_matrix[1][1] does not exist with a single label
             IF Len(obs_matrix[1]) < 2
             THEN Raise("IndexError", New("MannWhitney") @@ [y1 |-> obs_matrix[2][1]])
             ELSE MannWhitney_compute(
                      New("MannWhitney") @@ [y1 |-> obs_matrix[2][1], y2 |-> obs_matrix[2][2]],
                      a.continuity)

(***************************************************************************)
(* nonparametric.py: class WilcoxonTest                                    *)
(***************************************************************************)
\* mutant of WilcoxonTest_v_statistic: the ranks of the signed differences are summed
WilcoxonTest_v_signed_ranks(self) ==
    LET y_median_signed ==
            IF self.paired THEN self.y1
            ELSE [i \in 1..Len(self.y1) |-> self.y1[i] - self.median]
    IN  QSum(rankdata(y_median_signed))

\* v_statistic: the indicator z tests the ranks of the signed values, which are
\* all at least 1, so every rank of the absolute values is summed
WilcoxonTest_v_statistic(self) ==
    LET y_median_signed ==
            IF self.paired THEN self.y1
            ELSE [i \in 1..Len(self.y1) |-> self.y1[i] - self.median]
        y_median_unsigned == [i \in 1..Len(self.y1) |-> Abs(y_median_signed[i])]
        ranks_signed == rankdata(y_median_signed)
        ranks_unsigned == rankdata(y_median_unsigned)
        z == [i \in 1..Len(self.y1) |-> IF QLess(QInt(0), ranks_signed[i]) THEN 1 ELSE 0]
    IN  QSum([i \in 1..Len(self.y1) |-> QMul(ranks_unsigned[i], QInt(z[i]))])

WilcoxonTest_zvalue(self) ==
    NpDivRoot(self.V, Q(self.n * (self.n + 1) * (2 * self.n + 1), 6))

\* mutant of WilcoxonTest_pvalue: no substitution of eps for 0
WilcoxonTest_pvalue_unguarded(self) ==
    LET p == FOneMinus(norm_cdf(FAbs(self.z)))
    IN  IF self.alternative = "two-sided" THEN FTwice(p)
        ELSE IF self.alternative = "greater" THEN FOneMinus(p)
        ELSE p

WilcoxonTest_pvalue(self) ==
    LET p == FOneMinus(norm_cdf(FAbs(self.z)))
        p1 == IF self.alternative = "two-sided" THEN FTwice(p)
              ELSE IF self.alternative = "greater" THEN FOneMinus(p)
              ELSE p
    IN  IF p1 = QInt(0) THEN Eps ELSE p1

WilcoxonTest_eff_size(self) == EffSize(self.z, self.n)

\* mutant of WilcoxonTest_lengths_differ: only a longer y1 is rejected
WilcoxonTest_y1_longer(y1, y2) == Len(y1) > Len(y2)

\* len(y1) != len(y2)
WilcoxonTest_lengths_differ(y1, y2) == Len(y1) # Len(y2)

\* WilcoxonTest.__init__(y1, y2, paired, mu, alternative)
WilcoxonTest_init(a) ==
    LET s0 == New("WilcoxonTest")
              @@ [paired |-> a.paired, median |-> a.mu, alternative |-> a.alternative,
                  test_description |-> "Wilcoxon signed rank test"]
    IN  IF a.paired /\ IsNone(a.y2) THEN Raise("ValueError", s0)
        ELSE IF a.paired /\ WilcoxonTest_lengths_differ(a.y1, Get(a.y2))
        THEN Raise("ValueError", s0)
        ELSE LET s1 == s0 @@ [y1 |-> IF a.paired
                                     THEN [i \in 1..Len(a.y1) |-> a.y1[i] - Get(a.y2)[i]]
                                     ELSE a.y1]
                 s2 == s1 @@ [n |-> Len(s1.y1)]
                 s3 == s2 @@ [V |-> WilcoxonTest_v_statistic(s2)]
                 s4 == s3 @@ [z |-> WilcoxonTest_zvalue(s3)]
                 s5 == s4 @@ [p |-> WilcoxonTest_pvalue(s4)]
             IN  Return(s5 @@ [effect_size |-> WilcoxonTest_eff_size(s5)])

\* the defaults of WilcoxonTest.__init__
WilcoxonCall(y1, y2, paired, mu, alternative) ==
    [y1 |-> y1, y2 |-> y2, paired |-> paired, mu |-> mu, alternative |-> alternative]

MannWhitneyCall(y1, y2, group, continuity) ==
    [y1 |-> y1, y2 |-> y2, group |-> group, continuity |-> continuity]

(***************************************************************************)
(* nonparametric.py: the front ends mann_whitney and wilcoxon_test         *)
(***************************************************************************)
\* mutant of mann_whitney_fn: the two test kinds exchanged
mann_whitney_fn_swapped(a) ==
    IF IsNone(a.y2) /\ IsNone(a.group)
    THEN MannWhitney_init(MannWhitneyCall(a.y1, a.y2, a.group, a.continuity))
    ELSE WilcoxonTest_init(WilcoxonCall(a.y1, None, FALSE, 0, "two-sided"))

mann_whitney_fn(a) ==
    IF IsNone(a.y2) /\ IsNone(a.group)
    THEN WilcoxonTest_init(WilcoxonCall(a.y1, None, FALSE, 0, "two-sided"))
    ELSE MannWhitney_init(MannWhitneyCall(a.y1, a.y2, a.group, a.continuity))

wilcoxon_test_fn(a) ==
    IF ~IsNone(a.y2) /\ a.paired = FALSE
    THEN MannWhitney_init(MannWhitneyCall(a.y1, a.y2, None, TRUE))
    ELSE WilcoxonTest_init(WilcoxonCall(a.y1, a.y2, a.paired, a.mu, "two-sided"))

(***************************************************************************)
(* nonparametric.py: class KruskalWallis                                   *)
(***************************************************************************)
\* the concatenation of a sequence of vectors
RECURSIVE Concat(_)
Concat(vs) == IF vs = <<>> THEN <<>> ELSE vs[1] \o Concat(Tail(vs))

\* _lib.build_des_mat: the rows <<group id, value>>; the samples are numbered in
\* the order given, or labelled by the group vector
build_des_mat(samples, group) ==
    IF IsNone(group)
    THEN Concat([i \in 1..Len(samples) |->
                    [j \in 1..Len(samples[i]) |-> <<i, samples[i][j]>>]])
    ELSE [j \in 1..Len(samples[1]) |-> <<Get(group)[j], samples[1][j]>>]

Column(matrix, c) == [i \in 1..Len(matrix) |-> matrix[i][c]]

\* _rank: the design matrix with the average ranks of its value column appended
KruskalWallis_rank(self) ==
    LET ranks == rankdata(Column(self.design_matrix, 2))
    IN  [i \in 1..Len(ranks) |-> self.design_matrix[i] \o <<ranks[i]>>]

\* _group_rank_sums: <<group id, sum of its ranks>>, the ids ascending
KruskalWallis_group_rank_sums(self) ==
    LET g == npi_group_by(Column(self.ranked_matrix, 1), Column(self.ranked_matrix, 3))
    IN  [i \in 1..Len(g[1]) |-> <<g[1][i], QSum(g[2][i])>>]

\* mutant of KruskalWallis_h_uncorrected: the rank sums are not squared
KruskalWallis_h_unsquared(self) ==
    LET g == npi_group_by(Column(self.design_matrix, 1), Column(self.design_matrix, 2))
        h1 == Q(12, self.n * (self.n + 1))
        h2 == QSum([i \in 1..Len(g[1]) |->
                       QDiv(self.group_rank_sums[i][2], QInt(Len(g[2][i])))])
    IN  QSub(QMul(h1, h2), QInt(3 * (self.n + 1)))

\* h_statistic before the tie correction
KruskalWallis_h_uncorrected(self) ==
    LET g == npi_group_by(Column(self.design_matrix, 1), Column(self.design_matrix, 2))
        group_observations == [i \in 1..Len(g[1]) |-> Len(g[2][i])]
        group_summed_ranks == [i \in 1..Len(g[1]) |-> self.group_rank_sums[i][2]]
        h1 == Q(12, self.n * (self.n + 1))
        h2 == QSum([i \in 1..Len(g[1]) |->
                       QDiv(QSq(group_summed_ranks[i]), QInt(group_observations[i]))])
    IN  QSub(QMul(h1, h2), QInt(3 * (self.n + 1)))

KruskalWallis_h_statistic(self) ==
    FDiv(KruskalWallis_h_uncorrected(self), tie_correction(Column(self.ranked_matrix, 3)))

\* p_val, t_val and lsd apply chi2.cdf, t.ppf and summary.var; they are kept as the
\* function applied and its arguments
KruskalWallis_p_val(self) == [k |-> "1 - chi2.cdf", x |-> self.H, df |-> self.dof]

KruskalWallis_t_val(self) == [k |-> "t.ppf(1 - alpha / 2)", df |-> self.n - self.k]

KruskalWallis_lsd(self) ==
    [k |-> "t_value * sqrt(mse * 2 / (n / k))", t_value |-> self.t_value,
     ranks |-> npi_group_by(Column(self.ranked_matrix, 1), Column(self.ranked_matrix, 3))[2],
     n |-> self.n, groups |-> self.k]

\* KruskalWallis.__init__(*args, group)
KruskalWallis_init(a) ==
    IF ~IsNone(a.group) /\ Len(a.samples) > 1
    THEN Raise("ValueError", New("KruskalWallis"))
    ELSE LET s0 == New("KruskalWallis")
                   @@ [design_matrix |-> build_des_mat(a.samples, a.group)]
             s1 == s0 @@ [group |-> IF ~IsNone(a.group) THEN Get(a.group)
                                    ELSE Column(s0.design_matrix, 1)]
             s2 == s1 @@ [ranked_matrix |-> KruskalWallis_rank(s1)]
             s3 == s2 @@ [group_rank_sums |-> KruskalWallis_group_rank_sums(s2)]
             s4 == s3 @@ [n |-> Len(s3.design_matrix),
                          k |-> Cardinality(Range(Column(s3.design_matrix, 1)))]
             s5 == s4 @@ [dof |-> s4.k - 1]
             s6 == s5 @@ [H |-> KruskalWallis_h_statistic(s5)]
             s7 == s6 @@ [p_value |-> KruskalWallis_p_val(s6)]
             s8 == s7 @@ [t_value |-> KruskalWallis_t_val(s7)]
             s9 == s8 @@ [least_significant_difference |-> KruskalWallis_lsd(s8)]
         IN  Return(s9 @@ [test_description |-> "Kruskal-Wallis rank sum test"])

KruskalWallisCall(samples, group) == [samples |-> samples, group |-> group]

\* kruskal_wallis(*args, group): the front end passes its arguments on
kruskal_wallis_fn(a) == KruskalWallis_init(KruskalWallisCall(a.samples, a.group))

(***************************************************************************)
(* The examples of the docstrings.                                         *)
(***************************************************************************)
\* mann_whitney docstring: the professor salaries
sal_a == <<139750, 173200, 79750, 11500, 141500>>

sal_b == <<103450, 124750, 137000, 89565, 102580>>

\* professor_discipline: 'B' (2) five times, then 'A' (1) five times
professor_discipline == <<2, 2, 2, 2, 2, 1, 1, 1, 1, 1>>

\* kruskal_wallis docstring: the plant growth weights, in hundredths
ctrl == <<417, 558, 518>>

trt1 == <<481, 417, 441>>

trt2 == <<531, 512, 554>>

\* group_vector: ctrl (1), trt1 (2), trt2 (3), three times each
group_vector == <<1, 1, 1, 2, 2, 2, 3, 3, 3>>

(***************************************************************************)
(* Properties of tTest.                                                    *)
(***************************************************************************)
Called(c) == cls = c /\ pc # "call"

Returned(c) == cls = c /\ pc = "returned"

Assigned(f) == f \in DOMAIN res.self

DistinctLabels(o) == IF IsNone(o) THEN 0 ELSE Cardinality(Range(Get(o)))

C2_DesignSelection ==
    (Called("tTest") /\ Assigned("test_description")) =>
        LET s == res.self
            mu0 == IF IsNone(args.mu) THEN 0 ELSE Get(args.mu)
        IN  IF args.paired
            THEN /\ s.test_description = "Paired t-test"
                 /\ Assigned("y1") =>
                       /\ s.y1 = [i \in 1..Len(args.y1) |-> args.y1[i] - Get(args.y2)[i]]
                       /\ IsNone(s.y2)
                       /\ DOMAIN s.sample_statistics = {"Sample Difference"}
            ELSE IF IsNone(args.y2) /\ IsNone(args.group)
            THEN /\ s.test_description = "One-Sample t-test"
                 /\ s.y1 = args.y1 /\ IsNone(s.y2)
                 /\ Assigned("t_statistic") =>
                       LET st == s.sample_statistics["Sample 1"]
                       IN  \/ s.t_statistic.k = "nan" /\ st.mean = QInt(mu0)
                           \/ /\ s.t_statistic.k # "nan"
                              /\ SignOf(s.t_statistic) = SignOf(QSub(st.mean, QInt(mu0)))
            ELSE /\ s.test_description =
                        (IF args.var_equal THEN "Two-Sample Student's t-test"
                                           ELSE "Two-Sample Welch's t-test")
                 /\ pc = "returned" => DOMAIN s.sample_statistics = {"Sample 1", "Sample 2"}

C2_Witness ==
    /\ Returned("tTest") /\ args.paired /\ ~IsNone(args.group)
    /\ res.self.test_description = "Paired t-test"
    /\ \E i \in 1..Len(args.y1) : res.self.y1[i] # args.y1[i]

\* C3: the degrees of freedom are n - 1 for the one-sample and paired designs and
\* n1 + n2 - 2 for the two-sample design with var_equal.
C3_DegreesOfFreedom ==
    (Called("tTest") /\ Assigned("parameter")) =>
        LET s == res.self
            n == Len(args.y1)
        IN  IF args.paired \/ (IsNone(args.y2) /\ IsNone(args.group))
            THEN s.parameter = QInt(n - 1)
            ELSE args.var_equal =>
                    s.parameter = QInt(IF IsNone(args.group)
                                       THEN n + Len(Get(args.y2)) - 2
                                       ELSE n - 2)

C3_Witness ==
    /\ Returned("tTest") /\ ~args.paired /\ args.var_equal
    /\ IsNone(args.group) /\ ~IsNone(args.y2)
    /\ Len(args.y1) = 3 /\ Len(Get(args.y2)) = 2
    /\ res.self.parameter = QInt(3)

\* C4: with F the CDF at the statistic, the p-value is F for 'less', 1 - F for
\* 'greater', and for 'two-sided' 2F when 2F <= 1, 2 - 2F when 1 < 2F < 2 and
\* machine epsilon when 2F = 2; the p-value never exceeds 1.
C4_PValue ==
    Returned("tTest") =>
        LET s == res.self
            F == t_cdf(s.t_statistic, s.parameter)
            twoF == QMul(F, QInt(2))
        IN  /\ IsNum(F) =>
                s.p_value =
                    (IF args.alternative = "less" THEN F
                     ELSE IF args.alternative = "greater" THEN QSub(QInt(1), F)
                     ELSE IF QLeq(twoF, QInt(1)) THEN twoF
                     ELSE IF QLess(twoF, QInt(2)) THEN QSub(QInt(2), twoF)
                     ELSE Eps)
            /\ ~FLess(QInt(1), s.p_value)

C4_Witness ==
    /\ Returned("tTest") /\ args.alternative = "two-sided"
    /\ t_cdf(res.self.t_statistic, res.self.parameter) = QInt(1)
    /\ res.self.p_value = Eps

\* C5: with a group vector of exactly two labels, tTest(y, group=g) reports the
\* means, statistic, degrees of freedom and p-value of tTest(a, b), a the
\* observations of the smaller label and b those of the larger, whichever label
\* comes first in g.
C5_GroupForm ==
    (Returned("tTest") /\ ~args.paired /\ DistinctLabels(args.group) = 2) =>
        LET g == Get(args.group)
            lo == CHOOSE l \in Range(g) : \A m \in Range(g) : l <= m
            hi == CHOOSE l \in Range(g) : \A m \in Range(g) : m <= l
            a == SelectAt(args.y1, g, lo)
            b == SelectAt(args.y1, g, hi)
            two == tTest_init(tTestCall(a, Some(b), None, args.mu, args.var_equal,
                                        FALSE, args.alternative))
            s == res.self
        IN  /\ two.exc = "none"
            /\ s.sample_statistics["Sample 1"].mean = two.self.sample_statistics["Sample 1"].mean
            /\ s.sample_statistics["Sample 2"].mean = two.self.sample_statistics["Sample 2"].mean
            /\ s.t_statistic = two.self.t_statistic
            /\ s.parameter = two.self.parameter
            /\ s.p_value = two.self.p_value

C5_Witness ==
    /\ Returned("tTest") /\ ~args.paired /\ DistinctLabels(args.group) = 2
    /\ Get(args.group)[1] = 3
    /\ res.self.y1 # res.self.y2[1]
    /\ res.self.t_statistic.k = "root" /\ res.self.t_statistic.n > 0
    /\ res.self.p_value.k = "num"

(***************************************************************************)
(* The rank tests: calls of MannWhitney, WilcoxonTest and the front ends.  *)
(***************************************************************************)
\* a sample long enough for z = V / sigma_w to pass 8.3, where 1 - norm.cdf(z)
\* rounds to 0: the observations 1, 2, ..., 93
LongSample == [i \in 1..93 |-> i]

RankVecs == Vecs(RankValues, MaxN)

OptRankVecs == {None} \cup {Some(v) : v \in RankVecs}

InitRank ==
    /\ pc = "call"
    /\ res = NoResult
    /\ \/ /\ cls \in {"MannWhitney", "mann_whitney"}
          /\ \E y1 \in RankVecs, c \in BOOLEAN :
                \/ \E o2 \in OptRankVecs : args = MannWhitneyCall(y1, o2, None, c)
                \/ \E gv \in [1..Len(y1) -> Labels] :
                      args = MannWhitneyCall(y1, None, Some(gv), c)
       \/ /\ cls \in {"MannWhitney", "mann_whitney"}
          /\ \E c \in BOOLEAN :
                \/ args = MannWhitneyCall(sal_a, Some(sal_b), None, c)
                \/ args = MannWhitneyCall(sal_a \o sal_b, None, Some(professor_discipline), c)
       \/ /\ cls = "WilcoxonTest"
          /\ \E y1 \in RankVecs, o2 \in OptRankVecs, pr \in BOOLEAN, m \in {0, 1},
                alt \in {"two-sided", "greater", "less"} :
                args = WilcoxonCall(y1, o2, pr, m, alt)
       \/ /\ cls = "WilcoxonTest"
          /\ \E alt \in {"two-sided", "greater", "less"} :
                args = WilcoxonCall(LongSample, None, FALSE, 0, alt)
       \/ /\ cls = "wilcoxon_test"
          /\ \E y1 \in RankVecs, o2 \in OptRankVecs, pr \in BOOLEAN, m \in {0, 1} :
                args = [y1 |-> y1, y2 |-> o2, paired |-> pr, mu |-> m]

Finish(r) ==
    /\ res' = r
    /\ pc' = IF r.exc = "none" THEN "returned" ELSE "raised"
    /\ UNCHANGED <<cls, args>>

\* MannWhitney(...): the whole constructor
MannWhitney == cls = "MannWhitney" /\ pc = "call" /\ Finish(MannWhitney_init(args))

\* WilcoxonTest(...): the whole constructor
WilcoxonTest == cls = "WilcoxonTest" /\ pc = "call" /\ Finish(WilcoxonTest_init(args))

\* mann_whitney(...)
mann_whitney == cls = "mann_whitney" /\ pc = "call" /\ Finish(mann_whitney_fn(args))

\* wilcoxon_test(...)
wilcoxon_test == cls = "wilcoxon_test" /\ pc = "call" /\ Finish(wilcoxon_test_fn(args))

NextRank == MannWhitney \/ WilcoxonTest \/ mann_whitney \/ wilcoxon_test

SpecRank == InitRank /\ [][NextRank]_vars

(***************************************************************************)
(* Kruskal-Wallis: calls of KruskalWallis and kruskal_wallis.              *)
(***************************************************************************)
KWVecs == Vecs(RankValues, MaxKWLen)

\* the return of a function call that builds no object
Returns(v) == [exc |-> "none", self |-> NoSelf, value |-> v]

\* tie_correction(rank_array) called on its own
tie_correction_fn(a) == Returns(tie_correction(a.rank_array))

\* the rank arrays drawn: the average ranks of a vector, and the empty array
RankArrays == {<<>>} \cup {rankdata(v) : v \in Vecs(RankValues, MaxN)}

InitKruskal ==
    /\ pc = "call"
    /\ res = NoResult
    /\ \/ /\ cls = "tie_correction"
          /\ \E v \in RankArrays : args = [rank_array |-> v]
       \/ /\ cls \in {"KruskalWallis", "kruskal_wallis"}
          /\ \/ \E y \in RankVecs : \E gv \in [1..Len(y) -> Labels] :
                   args = KruskalWallisCall(<<y>>, Some(gv))
             \/ \E k \in 1..2 : \E vs \in [1..k -> KWVecs] :
                   args = KruskalWallisCall(vs, None)
             \/ \E vs \in [1..3 -> Vecs(Values, MaxKWLen)] :
                   args = KruskalWallisCall(vs, None)
             \/ \E y \in KWVecs, z \in Vecs(RankValues, 1) : \E gv \in [1..Len(y) -> Labels] :
                   args = KruskalWallisCall(<<y, z>>, Some(gv))
             \/ args = KruskalWallisCall(<<ctrl \o trt1 \o trt2>>, Some(group_vector))
             \/ args = KruskalWallisCall(<<ctrl, trt1, trt2>>, None)

\* KruskalWallis(...): the whole constructor
KruskalWallis == cls = "KruskalWallis" /\ pc = "call" /\ Finish(KruskalWallis_init(args))

\* kruskal_wallis(...)
kruskal_wallis == cls = "kruskal_wallis" /\ pc = "call" /\ Finish(kruskal_wallis_fn(args))

\* tie_correction(rank_array)
tie_correction_call == cls = "tie_correction" /\ pc = "call" /\ Finish(tie_correction_fn(args))

NextKruskal == KruskalWallis \/ kruskal_wallis \/ tie_correction_call

SpecKruskal == InitKruskal /\ [][NextKruskal]_vars

(***************************************************************************)
(* Properties of the rank tests.                                           *)
(***************************************************************************)
\* the object returned is of class c
Built(c) == pc = "returned" /\ res.self["__class__"] = c

\* the average rank of c[i] in c: the mean of the ranks lo..hi that the
\* elements equal to c[i] jointly occupy
AverageRank(c, i) ==
    LET lo == 1 + Cardinality({j \in 1..Len(c) : c[j] < c[i]})
        hi == Cardinality({j \in 1..Len(c) : c[j] <= c[i]})
    IN  Q(lo + hi, 2)

\* sum of t^3 - t over the sizes t of the groups of equal elements of c
RECURSIVE TieSum(_)
TieSum(c) ==
    IF c = <<>> THEN 0
    ELSE LET t == Cardinality({j \in 1..Len(c) : c[j] = c[1]})
         IN  (t * t * t - t) + TieSum(SelectSeq(c, LAMBDA e : e # c[1]))

\* C6: U1 = n1 n2 + n1 (n1 + 1) / 2 - (sum of the average ranks of y1 in y1 \o y2),
\* U2 = n1 n2 - U1, the reported U is min(U1, U2) and 0 <= U <= n1 n2 / 2.
C6_UStatistic ==
    Built("MannWhitney") =>
        LET s == res.self
            c == s.y1 \o s.y2
            n1 == Len(s.y1)
            n2 == Len(s.y2)
            R1 == QSum([i \in 1..n1 |-> AverageRank(c, i)])
            U1 == QSub(QAdd(QInt(n1 * n2), Q(n1 * (n1 + 1), 2)), R1)
            U2 == QSub(QInt(n1 * n2), U1)
        IN  /\ n1 >= 1 /\ n2 >= 1
            /\ (cls \in {"MannWhitney", "mann_whitney"} /\ IsNone(args.group)) =>
                  (s.y1 = args.y1 /\ s.y2 = Get(args.y2))
            /\ QAdd(U1, U2) = QInt(n1 * n2)
            /\ s.u_statistic \in {U1, U2}
            /\ QLeq(s.u_statistic, U1) /\ QLeq(s.u_statistic, U2)
            /\ QLeq(QInt(0), s.u_statistic)
            /\ QLeq(s.u_statistic, Q(n1 * n2, 2))

C6_Witness ==
    /\ Built("MannWhitney") /\ cls = "MannWhitney"
    /\ res.self.y1 = <<1, 2, 2>> /\ res.self.y2 = <<0, 2>>
    /\ res.self.u_statistic = QInt(2)

\* C7: the tie term of sigma is the tie-correction factor of the ranks of all
\* n = n1 + n2 observations, so ties among the observations of y2 reduce sigma.
C7_SigmaTieTerm ==
    Built("MannWhitney") =>
        LET s == res.self
            c == s.y1 \o s.y2
            n == Len(c)
        IN  s.sigma = Root(1, QMul(Q(Len(s.y1) * Len(s.y2) * (n + 1), 12),
                                   QSub(QInt(1), Q(TieSum(c), n * n * n - n))))

\* C8: for the salary example with continuity on, U = 10 and the mean rank is 13,
\* and the call with the concatenated vector and the group vector reports the U,
\* mean rank, sigma, z and p-value of the call with the two vectors.
C8_SalaryExample ==
    (cls \in {"MannWhitney", "mann_whitney"} /\ pc # "call"
     /\ args \in {MannWhitneyCall(sal_a, Some(sal_b), None, TRUE),
                  MannWhitneyCall(sal_a \o sal_b, None, Some(professor_discipline), TRUE)}) =>
        LET two == mann_whitney_fn(MannWhitneyCall(sal_a, Some(sal_b), None, TRUE)).self
            s == res.self
        IN  /\ Built("MannWhitney")
            /\ s.u_statistic = QInt(10)
            /\ s.meanrank = QInt(13)
            /\ s.sigma = Root(1, Q(275, 12))
            /\ s.u_statistic = two.u_statistic
            /\ s.meanrank = two.meanrank
            /\ s.sigma = two.sigma
            /\ s.z_value = two.z_value
            /\ s.p_value = two.p_value

C8_Witness ==
    /\ cls = "mann_whitney" /\ Built("MannWhitney")
    /\ args = MannWhitneyCall(sal_a \o sal_b, None, Some(professor_discipline), TRUE)
    /\ res.self.y1 = sal_b
    /\ res.self.u_statistic = QInt(10)
    /\ res.self.z_value = Root(1, Q(108, 275))

\* C9: V is the sum of the average ranks of |d_i| over the observations whose
\* signed difference d_i (y1_i - y2_i when paired, else y1_i - mu) is positive.
C9_VStatistic ==
    (cls = "WilcoxonTest" /\ Built("WilcoxonTest")) =>
        LET d == IF args.paired
                 THEN [i \in 1..Len(args.y1) |-> args.y1[i] - Get(args.y2)[i]]
                 ELSE [i \in 1..Len(args.y1) |-> args.y1[i] - args.mu]
            a == [i \in 1..Len(d) |-> Abs(d[i])]
        IN  res.self.V = QSum([i \in 1..Len(d) |->
                                  IF d[i] > 0 THEN AverageRank(a, i) ELSE QInt(0)])

RaiseWith(e, msg, self) == [exc |-> e, msg |-> msg, self |-> self]

\* scipy.special.comb(n, k)
RECURSIVE comb(_, _)
comb(n, k) ==
    IF k < 0 \/ k > n THEN 0
    ELSE IF k = 0 THEN 1
    ELSE (comb(n - 1, k - 1) * n) \div k

\* a ** e for a rational a in lowest terms and an integer e >= 0 (0 ** 0 is 1)
QPow(a, e) == IF e = 0 THEN QInt(1) ELSE [k |-> "num", n |-> a.n ^ e, d |-> a.d ^ e]

\* comb(n, k) * p ** k * q ** (n - k), the summand of _p_value
BinomialTest_pmf(self, k) ==
    QMul(QInt(comb(self.n, k)), QMul(QPow(self.p, k), QPow(self.q, self.n - k)))

\* the sum of f[k] over the k of the finite set K of integers
RECURSIVE QSumOver(_, _)
QSumOver(K, f) ==
    IF K = {} THEN QInt(0)
    ELSE IF Cardinality(K) = 1 THEN QAdd(f[CHOOSE k \in K : TRUE], QInt(0))
    \* the lower half of K and the rest
    ELSE LET lower == {k \in K : 2 * Cardinality({j \in K : j < k}) < Cardinality(K)}
         IN  QAdd(QSumOver(lower, f), QSumOver(K \ lower, f))

\* mutant of BinomialTest_other_tail: the threshold pmf(x) is not applied
BinomialTest_other_tail_unfiltered(self) == (self.x + 1)..self.n

\* the successes of np.arange(x + 1, n + 1) kept by p_othertail <= y
BinomialTest_other_tail(self) ==
    LET y == BinomialTest_pmf(self, self.x)
    IN  {k \in (self.x + 1)..self.n : QLeq(BinomialTest_pmf(self, k), y)}

BinomialTest_p_value(self) ==
    LET pmf == [k \in 0..self.n |-> BinomialTest_pmf(self, k)]
        pval == QSumOver(0..self.x, pmf)
    IN  IF self.alternative = "two-sided"
        THEN QAdd(pval, QSumOver(BinomialTest_other_tail(self), pmf))
        ELSE pval

\* norm.ppf, beta.ppf, np.sqrt, np.arcsin and np.sin are kept as the function
\* applied; the intervals record the quantities they are computed from
BinomialTest_clopper_pearson_interval(self) ==
    [probability_of_success |-> Q(self.x, self.n),
     lower_bound |-> [k |-> "beta.ppf", q |-> "alpha / 2", a |-> self.x, b |-> self.n - self.x + 1],
     upper_bound |-> [k |-> "beta.ppf", q |-> "1 - alpha / 2", a |-> self.x + 1, b |-> self.n - self.x]]

BinomialTest_wilson_score_interval(self) ==
    [k |-> "wilson", n |-> self.n, p |-> self.p, z |-> self.z, continuity |-> self.continuity]

BinomialTest_agresti_coull_interval(self) ==
    [k |-> "agresti-coull", n |-> self.n, x |-> self.x, z |-> self.z]

BinomialTest_arcsine_transform_interval(self) ==
    LET p == self.clopper_pearson_interval.probability_of_success
    IN  [k |-> "arcsine", probability_of_success |-> p,
         probability_variance |-> QDiv(QMul(p, QSub(QInt(1), p)), QInt(self.n)),
         n |-> self.n, z |-> self.z]

BinomialTest_generate_test_summary(self) ==
    [Number_of_Successes |-> self.x, Number_of_Trials |-> self.n,
     p_value |-> self.p_value, alpha |-> self.alpha,
     intervals |-> [Clopper_Pearson |-> self.clopper_pearson_interval,
                    Wilson_Score |-> self.wilson_score_interval,
                    Agresti_Coull |-> self.agresti_coull_interval,
                    Arcsine_Transform |-> self.arcsine_transform_interval]]

\* mutant of BinomialTest_validate: p > 1 is tested before x > n
BinomialTest_validate_p_first(a) ==
    IF QLess(QInt(1), a.p) THEN "expected probability of success cannot be greater than 1."
    ELSE IF a.x > a.n THEN "number of successes cannot be greater than number of trials."
    ELSE IF a.alternative \notin {"two-sided", "greater", "lesser"}
    THEN "alternative must be one of 'two-sided' (default), 'greater', or 'lesser'."
    ELSE ""

\* the three checks of __init__ in their order: the message of the first that
\* fails, "" when all pass
BinomialTest_validate(a) ==
    IF a.x > a.n THEN "number of successes cannot be greater than number of trials."
    ELSE IF QLess(QInt(1), a.p) THEN "expected probability of success cannot be greater than 1."
    ELSE IF a.alternative \notin {"two-sided", "greater", "lesser"}
    THEN "alternative must be one of 'two-sided' (default), 'greater', or 'lesser'."
    ELSE ""

BinomialTest_init(a) ==
    LET s0 == New("BinomialTest")
        msg == BinomialTest_validate(a)
    IN
    IF msg # "" THEN RaiseWith("ValueError", msg, s0)
    ELSE
    LET s1 == s0 @@ [n |-> a.n, x |-> a.x, p |-> a.p, q |-> QSub(QInt(1), a.p),
                     alpha |-> "0.05", alternative |-> a.alternative,
                     continuity |-> a.continuity]
        s2 == s1 @@ [p_value |-> BinomialTest_p_value(s1)]
        s3 == s2 @@ [z |-> "norm.ppf(1 - alpha / 2)"]
    IN  \* p = self.x / self.n in _clopper_pearson_interval divides Python ints
        IF a.n = 0 THEN Raise("ZeroDivisionError", s3)
        ELSE
        LET s4 == s3 @@ [clopper_pearson_interval |-> BinomialTest_clopper_pearson_interval(s3)]
            s5 == s4 @@ [wilson_score_interval |-> BinomialTest_wilson_score_interval(s4)]
            s6 == s5 @@ [agresti_coull_interval |-> BinomialTest_agresti_coull_interval(s5)]
            s7 == s6 @@ [arcsine_transform_interval |->
                              BinomialTest_arcsine_transform_interval(s6)]
        IN  Return(s7 @@ [test_summary |-> BinomialTest_generate_test_summary(s7)])

\* the arguments of a BinomialTest call; alpha keeps its default
BinomialCall(n, x, p, alternative, continuity) ==
    [n |-> n, x |-> x, p |-> p, alternative |-> alternative, continuity |-> continuity]

(***************************************************************************)
(* hypothesis.py: class ChiSquareTest                                      *)
(***************************************************************************)
\* the conversion of a float to an integer dtype: the fraction is dropped
Truncate(q) == QInt(Sgn(q.n) * (Abs(q.n) \div q.d))

\* mutant of np_full_like: the fill value keeps its fraction under every dtype
np_full_like_exact(a, fill_value) == [i \in 1..Len(a.v) |-> fill_value]

\* np.full_like(a, fill_value): an array of the shape AND dtype of a
np_full_like(a, fill_value) ==
    [i \in 1..Len(a.v) |-> IF a.dtype = "int" THEN Truncate(fill_value) ELSE fill_value]

\* np.mean
np_mean(a) == Q(SumSeq(a.v), Len(a.v))

\* the sum of a vector of floats
RECURSIVE FSum(_)
FSum(v) ==
    IF v = <<>> THEN QInt(0)
    ELSE IF Len(v) = 1 THEN FAdd(v[1], QInt(0))
    ELSE LET h == Len(v) \div 2
         IN  FAdd(FSum(SubSeq(v, 1, h)), FSum(SubSeq(v, h + 1, Len(v))))

ChiSquareTest_chisquare_value(self) ==
    LET c == IF self.continuity_correction THEN Q(1, 2) ELSE QInt(0)
        term(i) == LET d == QSub(QInt(self.observed.v[i]), self.expected[i])
                   IN  FDiv(QSq(QSub([d EXCEPT !.n = Abs(d.n)], c)), self.expected[i])
    IN  FSum([i \in 1..Len(self.observed.v) |-> term(i)])

\* chi2.cdf is kept as the function applied and its arguments
ChiSquareTest_p_value(self) ==
    [k |-> "chi2.cdf", x |-> self.chi_square, df |-> self.degrees_of_freedom]

\* mutant of ChiSquareTest_shapes_differ: only a shorter expected vector is rejected
ChiSquareTest_expected_shorter(observed, expected) == Len(observed) > Len(expected)

\* self.observed.shape[0] != self.expected.shape[0]
ChiSquareTest_shapes_differ(observed, expected) == Len(observed) # Len(expected)

ChiSquareTest_init(a) ==
    LET s0 == New("ChiSquareTest") @@ [observed |-> a.observed]
        s1 == s0 @@ [expected |-> IF IsNone(a.expected)
                                  THEN np_full_like(a.observed, np_mean(a.observed))
                                  ELSE [i \in 1..Len(Get(a.expected)) |->
                                           QInt(Get(a.expected)[i])]]
    IN
    IF ~IsNone(a.expected) /\ ChiSquareTest_shapes_differ(a.observed.v, s1.expected)
    THEN Raise("ValueError", s1)
    ELSE
    LET s2 == s1 @@ [degrees_of_freedom |-> a.degrees_freedom,
                     continuity_correction |-> a.continuity,
                     n |-> Len(a.observed.v)]
        s3 == s2 @@ [chi_square |-> ChiSquareTest_chisquare_value(s2)]
        s4 == s3 @@ [p_value |-> ChiSquareTest_p_value(s3)]
    IN  Return(s4 @@ [test_summary |->
                         [chi_square |-> s4.chi_square, p_value |-> s4.p_value,
                          degrees_of_freedom |-> s4.degrees_of_freedom,
                          continuity_correction |-> s4.continuity_correction]])

ChiSquareCall(observed, expected, continuity, degrees_freedom) ==
    [observed |-> observed, expected |-> expected, continuity |-> continuity,
     degrees_freedom |-> degrees_freedom]

(***************************************************************************)
(* The calls of BinomialTest and ChiSquareTest.                            *)
(***************************************************************************)
\* largest number of trials drawn
MaxTrials == 4

\* longest observed vector drawn
MaxCells == 3

\* the probabilities of success drawn; 3/2 is not a probability
Probabilities == {QInt(0), Q(1, 4), Q(1, 2), Q(3, 4), QInt(1), Q(3, 2)}

\* observed counts; a list of Python ints becomes an integer array, a list of
\* floats a float array
CellCounts == {0, 1, 2}

ExpectedCounts == {1, 2}

InitClassical ==
    /\ pc = "call"
    /\ res = NoResult
    /\ \/ /\ cls = "BinomialTest"
          /\ \E n \in 0..MaxTrials, x \in 0..(MaxTrials + 1), p \in Probabilities,
                alt \in Alternatives, c \in BOOLEAN :
                args = BinomialCall(n, x, p, alt, c)
       \/ /\ cls = "ChiSquareTest"
          /\ \E dt \in {"int", "float"}, v \in Vecs(CellCounts, MaxCells),
                e \in {None} \cup {Some(w) : w \in Vecs(ExpectedCounts, MaxCells)},
                c \in BOOLEAN, df \in {1, 2} :
                args = ChiSquareCall([dtype |-> dt, v |-> v], e, c, df)

\* BinomialTest(...): the whole constructor
BinomialTest == cls = "BinomialTest" /\ pc = "call" /\ Finish(BinomialTest_init(args))

\* ChiSquareTest(...): the whole constructor
ChiSquareTest == cls = "ChiSquareTest" /\ pc = "call" /\ Finish(ChiSquareTest_init(args))

NextClassical == BinomialTest \/ ChiSquareTest

SpecClassical == InitClassical /\ [][NextClassical]_vars

(***************************************************************************)
(* Properties of BinomialTest.                                             *)
(***************************************************************************)
\* the binomial probability of k successes in n trials, from the arguments
Pmf(n, p, k) == QMul(QInt(comb(n, k)), QMul(QPow(p, k), QPow(QSub(QInt(1), p), n - k)))

\* the sum of Pmf(n, p, k) over the k of K
PmfSum(n, p, K) == QSumOver(K, [k \in 0..n |-> Pmf(n, p, k)])

\* C11: for 0 <= x <= n the p-value contains the observed tail sum_{k <= x} pmf(k);
\* 'two-sided' adds exactly the pmf(k) with x < k <= n and pmf(k) <= pmf(x),
\* 'greater' and 'lesser' add nothing and so return the same value.
C11_PValueTails ==
    (cls = "BinomialTest" /\ Built("BinomialTest")) =>
        LET a == args
            tail == PmfSum(a.n, a.p, 0..a.x)
            other == {k \in (a.x + 1)..a.n : QLeq(Pmf(a.n, a.p, k), Pmf(a.n, a.p, a.x))}
        IN  /\ a.alternative = "two-sided" =>
                  res.self.p_value = QAdd(tail, PmfSum(a.n, a.p, other))
            /\ a.alternative \in {"greater", "lesser"} =>
                  /\ res.self.p_value = tail
                  /\ res.self.p_value =
                        BinomialTest_init([a EXCEPT !.alternative =
                            IF a.alternative = "greater" THEN "lesser" ELSE "greater"]).self.p_value

C11_Witness ==
    /\ cls = "BinomialTest" /\ Built("BinomialTest")
    /\ args.n = 4 /\ args.x = 1 /\ args.p = Q(1, 2) /\ args.alternative = "two-sided"
    /\ res.self.p_value = Q(10, 16)

\* C12: the two-sided p-value is the standard exact one, the sum of pmf(k) over
\* all k in 0..n with pmf(k) <= pmf(x), also for x above the mode.
C12_StandardTwoSided ==
    (cls = "BinomialTest" /\ Built("BinomialTest") /\ args.alternative = "two-sided") =>
        res.self.p_value =
            PmfSum(args.n, args.p,
                   {k \in 0..args.n : QLeq(Pmf(args.n, args.p, k), Pmf(args.n, args.p, args.x))})

C14_DefaultExpected ==
    (cls = "ChiSquareTest" /\ Built("ChiSquareTest") /\ IsNone(args.expected)) =>
        LET o == args.observed.v
            n == Len(o)
            m == Q(SumSeq(o), n)
            c == IF args.continuity THEN Q(1, 2) ELSE QInt(0)
            dev(i) == LET d == QSub(QInt(o[i]), m) IN [d EXCEPT !.n = Abs(d.n)]
            stat == QSumOver(1..n, [i \in 1..n |-> QDiv(QSq(QSub(dev(i), c)), m)])
        IN  /\ \A i \in 1..n : res.self.expected[i] = m
            /\ m.n # 0 =>
                  /\ res.self.chi_square = stat
                  /\ (\A i \in 1..n : o[i] = o[1]) =>
                        res.self.chi_square =
                            IF args.continuity THEN QDiv(Q(n, 4), m) ELSE QInt(0)

(***************************************************************************)
(* Properties of tTest: edge cases of the statistic, the interval and the  *)
(* outcome of a construction.                                              *)
(***************************************************************************)
\* C15: a paired tTest with y1 = y2 element-wise completes construction and
\* reports t-statistic 0 and two-sided p-value 1, not NaN, infinity or an error.
C15_PairedIdentical ==
    (Called("tTest") /\ args.paired /\ args.y2 = Some(args.y1)
     /\ tTest_valid_alternative(args.alternative)) =>
        /\ pc = "returned"
        /\ res.self.t_statistic = QInt(0)
        /\ args.alternative = "two-sided" => res.self.p_value = QInt(1)

\* C16: for a one-sided alternative exactly one bound of the confidence interval
\* is infinite and the other is a finite bound of the two-sided interval: 'less'
\* gives a first component of -infinity, 'greater' a second component of +infinity.
C16_OneSidedInterval ==
    (Returned("tTest") /\ args.alternative \in {"less", "greater"}) =>
        LET ci == res.self.confidence_interval
            two == tTest_init([args EXCEPT !.alternative = "two-sided"]).self.confidence_interval
            finite == {two[i] : i \in {j \in 1..2 : two[j].k = "bound"}}
        IN  finite # {} =>
               /\ args.alternative = "less" => (ci[1] = NegInf /\ ci[2] \in finite)
               /\ args.alternative = "greater" => (ci[2] = PosInf /\ ci[1] \in finite)

\* the attributes a finished tTest and a finished MannWhitney carry
tTestFields ==
    {"sample_statistics", "parameter", "t_statistic", "p_value", "confidence_interval",
     "test_summary"}

MannWhitneyFields ==
    {"u_statistic", "meanrank", "sigma", "z_value", "p_value", "effect_size"}

\* C19: every construction of tTest or MannWhitney ends either in a result with
\* every summary field computed or in a ValueError raised before any statistic
\* is computed; no other exception escapes.
C19_FullResultOrValueError ==
    (cls \in {"tTest", "MannWhitney"} /\ pc # "call") =>
        LET fields == IF cls = "tTest" THEN tTestFields ELSE MannWhitneyFields
        IN  \/ pc = "returned" /\ fields \subseteq DOMAIN res.self
            \/ pc = "raised" /\ res.exc = "ValueError" /\ fields \cap DOMAIN res.self = {}

(***************************************************************************)
(* Properties of the rank utilities and of WilcoxonTest's validation.      *)
(***************************************************************************)
\* the values ranked by a finished KruskalWallis or MannWhitney, and their ranks
RankedValues ==
    IF cls \in {"KruskalWallis", "kruskal_wallis"}
    THEN Column(res.self.design_matrix, 2)
    ELSE res.self.y1 \o res.self.y2

RanksUsed ==
    IF cls \in {"KruskalWallis", "kruskal_wallis"}
    THEN Column(res.self.ranked_matrix, 3)
    ELSE rankdata(res.self.y1 \o res.self.y2)

\* C17: the average ranks used by KruskalWallis and MannWhitney sum to
\* n (n + 1) / 2; tied values all receive the mean of the ranks they jointly
\* occupy and untied values their ordinal rank.
C17_AverageRanks ==
    ((cls \in {"KruskalWallis", "kruskal_wallis"} /\ pc = "returned")
     \/ (cls \in {"MannWhitney", "mann_whitney", "wilcoxon_test"} /\ Built("MannWhitney"))) =>
        LET c == RankedValues
            r == RanksUsed
            n == Len(c)
            below(i) == Cardinality({j \in 1..n : c[j] < c[i]})
            tied(i) == {j \in 1..n : c[j] = c[i]}
        IN  /\ Len(r) = n
            /\ QSum(r) = Q(n * (n + 1), 2)
            /\ \A i \in 1..n :
                  /\ r[i] = Q(2 * below(i) + Cardinality(tied(i)) + 1, 2)
                  /\ \A j \in tied(i) : r[j] = r[i]
                  /\ tied(i) = {i} => r[i] = QInt(below(i) + 1)
            /\ Built("MannWhitney") =>
                  res.self.ranks = SubSeq(r, 1, Len(res.self.y1))

C17_Witness ==
    /\ cls = "MannWhitney" /\ Built("MannWhitney")
    /\ res.self.y1 = <<1, 2, 2>> /\ res.self.y2 = <<0, 2>>
    /\ res.self.ranks = <<QInt(2), QInt(4), QInt(4)>>

\* C18: tie_correction returns exactly 1 for a rank vector of length N >= 2
\* without duplicates, and for N <= 1 it fails with an error, returning nothing.
C18_TieCorrection ==
    (cls = "tie_correction" /\ pc # "call") =>
        LET r == args.rank_array
            N == Len(r)
        IN  /\ (N >= 2 /\ Cardinality(Range(r)) = N) =>
                  (pc = "returned" /\ res.value = QInt(1))
            /\ N <= 1 => pc = "raised"

\* C20: with paired set WilcoxonTest fails with a ValueError when y2 is absent or
\* len(y1) # len(y2), before V, z or p is computed; with paired unset no length
\* check is made and y2 is ignored.
C20_WilcoxonValidation ==
    (cls = "WilcoxonTest" /\ pc # "call") =>
        LET bad == args.paired /\ (IsNone(args.y2) \/ Len(args.y1) # Len(Get(args.y2)))
        IN  /\ bad => /\ pc = "raised" /\ res.exc = "ValueError"
                      /\ {"V", "z", "p", "effect_size"} \cap DOMAIN res.self = {}
            /\ ~bad => pc = "returned"
            /\ ~args.paired =>
                  /\ res.self.y1 = args.y1 /\ res.self.n = Len(args.y1)
                  /\ res = WilcoxonTest_init([args EXCEPT !.y2 = None])

C20_Witness ==
    /\ cls = "WilcoxonTest" /\ pc = "raised" /\ res.exc = "ValueError"
    /\ args.paired /\ ~IsNone(args.y2) /\ Len(args.y1) < Len(Get(args.y2))

(***************************************************************************)
(* MannWhitney and KruskalWallis side by side: the calls of MannWhitney    *)
(* drawn by InitRank together with the calls drawn by InitKruskal.         *)
(***************************************************************************)
InitNonparametric == (cls = "MannWhitney" /\ InitRank) \/ InitKruskal

NextNonparametric == MannWhitney \/ NextKruskal

SpecNonparametric == InitNonparametric /\ [][NextNonparametric]_vars

\* C21: MannWhitney with a group vector of more than two distinct labels fails
\* with a ValueError before ranks or U are computed; KruskalWallis fails with a
\* ValueError when a group vector comes with more than one sample vector, and
\* accepts a group vector with one sample vector or several vectors without one.
C21_GroupValidation ==
    /\ (cls = "MannWhitney" /\ pc # "call") =>
          IF DistinctLabels(args.group) > 2
          THEN /\ pc = "raised" /\ res.exc = "ValueError"
               /\ {"ranks", "u_statistic"} \cap DOMAIN res.self = {}
          ELSE res.exc # "ValueError"
    /\ (cls \in {"KruskalWallis", "kruskal_wallis"} /\ pc # "call") =>
          IF ~IsNone(args.group) /\ Len(args.samples) > 1
          THEN pc = "raised" /\ res.exc = "ValueError"
          ELSE pc = "returned" /\ "H" \in DOMAIN res.self

C21_Witness ==
    /\ cls = "MannWhitney" /\ pc = "raised" /\ res.exc = "ValueError"
    /\ DistinctLabels(args.group) = 3

\* C22: ChiSquareTest fails with a ValueError whenever an expected vector of a
\* length other than that of observed is supplied, and never fails on length
\* grounds when expected is omitted.
C22_ChiSquareLengths ==
    (cls = "ChiSquareTest" /\ pc # "call") =>
        IF ~IsNone(args.expected) /\ Len(Get(args.expected)) # Len(args.observed.v)
        THEN pc = "raised" /\ res.exc = "ValueError" /\ "chi_square" \notin DOMAIN res.self
        ELSE pc = "returned" /\ "chi_square" \in DOMAIN res.self

C22_Witness ==
    /\ cls = "ChiSquareTest" /\ pc = "raised" /\ res.exc = "ValueError"
    /\ Len(args.observed.v) = 2 /\ Len(Get(args.expected)) = 3

\* C23: the WilcoxonTest p-value is 2 (1 - Phi(|z|)) for 'two-sided', 1 - Phi(|z|)
\* or its complement for the one-sided alternatives, and an exact 0 is replaced
\* by machine epsilon, so the reported p-value is strictly positive and at most 1.
C23_WilcoxonPValue ==
    (cls \in {"WilcoxonTest", "mann_whitney", "wilcoxon_test"} /\ Built("WilcoxonTest")) =>
        LET s == res.self
            tail == FOneMinus(norm_cdf(FAbs(s.z)))
            raw == IF s.alternative = "two-sided" THEN FTwice(tail)
                   ELSE IF s.alternative = "greater" THEN FOneMinus(tail)
                   ELSE tail
        IN  /\ s.p = IF raw = QInt(0) THEN Eps ELSE raw
            /\ FLess(QInt(0), s.p)
            /\ FLeq(s.p, QInt(1))

C23_Witness ==
    /\ cls = "WilcoxonTest" /\ Built("WilcoxonTest")
    /\ args.y1 = LongSample /\ args.alternative = "two-sided"
    /\ norm_cdf(FAbs(res.self.z)) = QInt(1)
    /\ res.self.p = Eps

\* the class of the object a finished call built or was building
Constructed == res.self["__class__"]

\* C24: mann_whitney builds a WilcoxonTest when y2 and group are both absent and
\* a MannWhitney otherwise; wilcoxon_test builds a MannWhitney when y2 is given
\* and paired is false and a WilcoxonTest otherwise; one kind per call.
C24_FrontEndDispatch ==
    /\ (cls = "mann_whitney" /\ pc # "call") =>
          /\ Constructed =
                IF IsNone(args.y2) /\ IsNone(args.group) THEN "WilcoxonTest" ELSE "MannWhitney"
          /\ Constructed = "WilcoxonTest" =>
                (pc = "returned" /\ res.self.y1 = args.y1 /\ ~res.self.paired)
          /\ (Constructed = "MannWhitney" /\ pc = "returned" /\ IsNone(args.group)) =>
                (res.self.y1 = args.y1 /\ res.self.y2 = Get(args.y2)
                 /\ res.self.continuity = args.continuity)
    /\ (cls = "wilcoxon_test" /\ pc # "call") =>
          /\ Constructed =
                IF ~IsNone(args.y2) /\ ~args.paired THEN "MannWhitney" ELSE "WilcoxonTest"
          /\ (Constructed = "WilcoxonTest" /\ pc = "returned") =>
                (res.self.paired = args.paired /\ res.self.median = args.mu)
          /\ (Constructed = "MannWhitney" /\ pc = "returned") =>
                (res.self.y1 = args.y1 /\ res.self.y2 = Get(args.y2))

C24_Witness ==
    /\ cls = "wilcoxon_test" /\ pc = "returned"
    /\ ~IsNone(args.y2) /\ ~args.paired
    /\ Constructed = "MannWhitney" /\ "u_statistic" \in DOMAIN res.self

\* a <= b for two bounds of one interval (centre c, offset s * crit * sqrt(w2)
\* with crit > 0) or infinities
BoundLeq(a, b) ==
    IF a.k = "inf" THEN a.n < 0 \/ b = PosInf
    ELSE IF b.k = "inf" THEN b.n > 0
    ELSE a.c = b.c /\ a.w2 = b.w2 /\ a.crit = b.crit /\ a.s <= b.s

\* C25: for every design and alternative the reported confidence interval
\* (low, high) satisfies low <= high.
C25_IntervalOrdered ==
    Returned("tTest") =>
        LET ci == res.self.confidence_interval
        IN  (ci[1].k # "nan" /\ ci[2].k # "nan") => BoundLeq(ci[1], ci[2])

\* -x for a float
FNeg(x) == [x EXCEPT !.n = -x.n]

\* C26: swapping the samples of a two-sample tTest (same var_equal, 'two-sided')
\* negates the t-statistic and leaves the degrees of freedom and the p-value
\* unchanged, also when the CDF at the statistic is exactly 0 or exactly 1.
C26_SwapSamples ==
    (Returned("tTest") /\ ~args.paired /\ IsNone(args.group) /\ ~IsNone(args.y2)
     /\ args.alternative = "two-sided") =>
        LET sw == tTest_init([args EXCEPT !.y1 = Get(args.y2), !.y2 = Some(args.y1)])
        IN  /\ sw.exc = "none"
            /\ sw.self.t_statistic = FNeg(res.self.t_statistic)
            /\ sw.self.parameter = res.self.parameter
            /\ sw.self.p_value = res.self.p_value

\* C27: MannWhitney(y1, y2) and MannWhitney(y2, y1) report the same U, mean rank,
\* sigma, z and p-value, with or without ties.
C27_MannWhitneySymmetric ==
    (cls = "MannWhitney" /\ Built("MannWhitney") /\ IsNone(args.group)) =>
        LET sw == MannWhitney_init([args EXCEPT !.y1 = Get(args.y2), !.y2 = Some(args.y1)])
        IN  /\ sw.exc = "none"
            /\ sw.self.u_statistic = res.self.u_statistic
            /\ sw.self.meanrank = res.self.meanrank
            /\ sw.self.sigma = res.self.sigma
            /\ sw.self.z_value = res.self.z_value
            /\ sw.self.p_value = res.self.p_value

\* C28: the continuity correction makes MannWhitney more conservative: with
\* continuity=True the z-value is never larger, and the p-value never smaller,
\* than with continuity=False for the same samples.
C28_ContinuityConservative ==
    (cls = "MannWhitney" /\ Built("MannWhitney") /\ args.continuity) =>
        LET off == MannWhitney_init([args EXCEPT !.continuity = FALSE]).self
        IN  (res.self.z_value.k # "nan" /\ off.z_value.k # "nan") =>
               /\ FLeq(res.self.z_value, off.z_value)
               /\ FLeq(off.p_value, res.self.p_value)

\* C29: the Wilson score interval is computed from the observed proportion x / n:
\* for fixed n, p, alpha and continuity, another number of successes gives
\* another interval.
C29_WilsonUsesObserved ==
    (cls = "BinomialTest" /\ Built("BinomialTest")) =>
        \A x2 \in (0..args.n) \ {args.x} :
            BinomialTest_init([args EXCEPT !.x = x2]).self.wilson_score_interval
                # res.self.wilson_score_interval

\* two strictly increasing transformations of the observations, one linear and
\* one not
Increasing(j, x) == IF j = 1 THEN 3 * x + 1 ELSE IF x <= 0 THEN x - 1 ELSE 2 * x

MapVec(j, v) == [i \in 1..Len(v) |-> Increasing(j, v[i])]

\* C30: applying the same strictly increasing transformation to all observations
\* leaves MannWhitney's U, mean rank, sigma and z, and KruskalWallis's H and
\* degrees of freedom, unchanged.
C30_OrderOnly ==
    /\ (cls = "MannWhitney" /\ pc # "call") =>
          \A j \in 1..2 :
             LET t == MannWhitney_init(
                          [args EXCEPT !.y1 = MapVec(j, @),
                                       !.y2 = IF IsNone(@) THEN @ ELSE Some(MapVec(j, Get(@)))])
             IN  /\ t.exc = res.exc
                 /\ pc = "returned" =>
                       /\ t.self.u_statistic = res.self.u_statistic
                       /\ t.self.meanrank = res.self.meanrank
                       /\ t.self.sigma = res.self.sigma
                       /\ t.self.z_value = res.self.z_value
    /\ (cls \in {"KruskalWallis", "kruskal_wallis"} /\ pc # "call") =>
          \A j \in 1..2 :
             LET t == KruskalWallis_init(
                          [args EXCEPT !.samples = [i \in 1..Len(@) |-> MapVec(j, @[i])]])
             IN  /\ t.exc = res.exc
                 /\ pc = "returned" =>
                       (t.self.H = res.self.H /\ t.self.dof = res.self.dof)

C30_Witness ==
    /\ cls = "MannWhitney" /\ Built("MannWhitney")
    /\ args.y1 = <<0, 2, 2>> /\ args.y2 = Some(<<1, 2>>)
    /\ MannWhitney_init([args EXCEPT !.y1 = MapVec(2, @),
                                     !.y2 = Some(MapVec(2, Get(@)))]).self.y1 = <<-1, 4, 4>>
    /\ res.self.ranks = <<QInt(1), QInt(4), QInt(4)>>

====
